---- MODULE Spec2Model ----
(***************************************************************************)
(* Model of the tennis ingestion loaders: src/src/load_tml.py (TML match   *)
(* files and the players reference, merged by natural key) and             *)
(* src/src/load_sackmann.py (players, rankings and match files, appended   *)
(* with COPY).  A table is the bag of its rows.  A raw  *)
(* cell is text; a typed cell is text or an integer, with NA / NaInt for   *)
(* pandas' missing value and SQL's NULL.                                   *)
(***************************************************************************)
EXTENDS Integers, Sequences, FiniteSets, Bags, TLC

VARIABLES
    matches,        \* atp.matches
    players_ref,    \* atp.players_ref
    players,        \* atp.players
    rankings,       \* atp.rankings
    key_nullable,   \* schema of atp.matches: may its key columns hold NULL
    last,           \* the last loader call: its name, outcome and staged keys
    run,            \* the orchestrating main(): its files and its position
    dd,             \* the rankings deduplication applied to a batch
    src             \* the source file last opened: its header and its frame

vars == <<matches, players_ref, players, rankings, key_nullable, last, run, dd, src>>

----------------------------------------------------------------------------
\* Bounds of the model.
MaxRows == 2       \* rows of one source file
MaxTable == 3      \* rows a table may hold
MaxFiles == 2      \* files of one orchestrated run
MaxBatch == 3      \* rows of a batch whose deduplication is compared

----------------------------------------------------------------------------
\* Missing values.
NA == "<NA>"       \* a missing text cell (NaN / pd.NA), and NULL in a text column
NaInt == 0 - 1     \* a missing integer or date cell (pd.NA / NaT), and NULL

Range(s) == {s[i] : i \in 1..Len(s)}

SeqsUpTo(S, n) == UNION {[1..k -> S] : k \in 0..n}

\* pd.read_csv(dtype=str): an empty cell is read as NaN, any other text is kept
ReadCell(s) == IF s = "" THEN NA ELSE s

\* Series.str.strip() on the text the model uses: a whitespace-only cell
\* becomes the empty string, a missing cell stays missing
Strip(s) == IF s = " " THEN "" ELSE s

\* pd.to_numeric(errors="coerce").astype("Int64")
ToNumeric(s) ==
    CASE s = "1" -> 1
      [] s = "2" -> 2
      [] s = "3" -> 3
      [] OTHER -> NaInt

\* pd.to_datetime(format="%Y%m%d", errors="coerce")
ToDatetime(s) ==
    CASE s = "20240101" -> 20240101
      [] s = "20240108" -> 20240108
      [] OTHER -> NaInt

\* pd.to_datetime(errors="coerce") without a format: the flexible parse
ToDatetimeFlexible(s) ==
    CASE s = "2024-01-01" -> 20240101
      [] s = "2024-01-08" -> 20240108
      [] OTHER -> ToDatetime(s)

\* DataFrame.to_csv followed by COPY ... WITH (FORMAT CSV), for a text cell:
\* NA and the empty string are both written as an empty field, and COPY reads
\* an unquoted empty field as NULL
CsvText(v) == IF v = NA \/ v = "" THEN NA ELSE v

----------------------------------------------------------------------------
\* TML match files (load_tml.py).  A match row keeps the three key columns
\* and one non-key column.

TmlCols == {"tourney_id", "tourney_date", "match_num", "score"}

RawMatchRow(t, d, n, s) ==
    [tourney_id |-> t, tourney_date |-> d, match_num |-> n, score |-> s]

\* the raw rows the source files are made of
RawMatchRows ==
    { RawMatchRow("A", "20240101", "1", "6-4"),
      RawMatchRow("A", "2024-01-01", "1", ""),
      RawMatchRow(" ", "20240101", "1", "6-4"),
      RawMatchRow("A", "20240101", "x", "6-4") }

MatchFiles == SeqsUpTo(RawMatchRows, MaxRows)

\* read_file, rows of a file that has every expected column
TmlRow(r) ==
    LET d1 == ToDatetime(r.tourney_date)
    IN  [tourney_id |-> Strip(ReadCell(r.tourney_id)),
         tourney_date |-> IF d1 = NaInt THEN ToDatetimeFlexible(r.tourney_date) ELSE d1,
         match_num |-> ToNumeric(r.match_num),
         score |-> Strip(ReadCell(r.score))]

read_file(rows) == [i \in 1..Len(rows) |-> TmlRow(rows[i])]

Key(r) == <<r.tourney_id, r.tourney_date, r.match_num>>

\* upsert_matches: key_mask, the rows that are kept
KeyMask(r) == r.tourney_id # NA /\ r.tourney_date # NaInt /\ r.match_num # NaInt

\* to_csv + COPY of one match row
CsvMatchRow(r) ==
    [tourney_id |-> CsvText(r.tourney_id), tourney_date |-> r.tourney_date,
     match_num |-> r.match_num, score |-> CsvText(r.score)]

CsvMatches(df) == [i \in 1..Len(df) |-> CsvMatchRow(df[i])]

\* a stored key with a NULL component
NullKey(r) == r.tourney_id = NA \/ r.tourney_date = NaInt \/ r.match_num = NaInt

\* Collide with the conflict target (tourney_date, match_num) only
CollideDateNum(a, b) ==
    /\ a.tourney_date # NaInt /\ a.match_num # NaInt
    /\ a.tourney_date = b.tourney_date /\ a.match_num = b.match_num

\* the unique index on (tourney_id, tourney_date, match_num) that ON CONFLICT
\* names: two rows collide when their keys are equal and hold no NULL
Collide(a, b) == ~NullKey(a) /\ Key(a) = Key(b)

\* a table is the bag of its rows
Rows(table) == BagToSet(table)

BagOfSeq(rows) ==
    [r \in Range(rows) |-> Cardinality({i \in 1..Len(rows) : rows[i] = r})]

Size(table) == BagCardinality(table)

\* the rows of `table` that hold the key k
RowsOfKey(table, k) == {t \in Rows(table) : Key(t) = k}

CountOfKey(table, k) ==
    BagCardinality([t \in RowsOfKey(table, k) |-> CopiesIn(t, table)])

\* no two rows of the bag collide on the unique index
UniqueBag(table) ==
    \A t \in Rows(table) :
        ~NullKey(t) => CountOfKey(table, Key(t)) = 1

\* the constraints a COPY into atp.matches, or into a table created
\* LIKE atp.matches INCLUDING ALL, checks on the rows it adds to `table`
CopyAccepts(table, rows, nullable) ==
    /\ UniqueBag(table (+) BagOfSeq(rows))
    /\ nullable \/ \A i \in 1..Len(rows) : ~NullKey(rows[i])

\* Overwrite as DO NOTHING: the stored row is kept
OverwriteNothing(t, r) == t

\* DO UPDATE SET <every non-key column> = EXCLUDED.<column>
Overwrite(t, r) == [t EXCEPT !.score = r.score]

\* INSERT ... ON CONFLICT (key) DO UPDATE, one scratch row
MergeRow(table, r) ==
    LET hit == {t \in Rows(table) : Collide(t, r)}
    IN  IF hit = {}
        THEN table (+) SetToBag({r})
        ELSE (table (-) SetToBag(hit)) (+) SetToBag({Overwrite(t, r) : t \in hit})

RECURSIVE MergeRows(_, _)
MergeRows(table, rows) ==
    IF rows = <<>> THEN table
    ELSE MergeRows(MergeRow(table, Head(rows)), Tail(rows))

\* Transaction without the rollback: the work done before the failure stays
TransactionNoRollback(before, work, raised) == work

\* with ENG.begin(): commit when the block ends, roll back when it raises
Transaction(before, work, raised) == IF raised THEN before ELSE work

\* the places where the storage call of upsert_matches can fail, and the
\* number of scratch rows merged when it does
UpsertFaults(n) ==
    {[step |-> s, done |-> 0] : s \in {"none", "create", "copy"}}
    \cup {[step |-> "merge", done |-> k] : k \in 0..(n - 1)}

\* the transaction of upsert_matches on the scratch rows tmp:
\* [table, outcome, handed]
UpsertTxn(table, tmp, copied, fault) ==
    LET raised == ~copied \/ fault.step = "merge"
        work == IF ~copied THEN table
                ELSE IF fault.step = "merge"
                     THEN MergeRows(table, SubSeq(tmp, 1, fault.done))
                     ELSE MergeRows(table, tmp)
    IN  [table |-> Transaction(table, work, raised),
         outcome |-> IF raised THEN "raised" ELSE "committed",
         handed |-> IF fault.step = "create" THEN <<>> ELSE tmp]

\* the scratch rows of upsert_matches: to_csv + COPY of the rows key_mask keeps
Staged(df) == CsvMatches(SelectSeq(df, KeyMask))

\* upsert_matches after the empty check: [table, outcome, handed]
UpsertResult(table, df, nullable, fault) ==
    LET tmp == Staged(df)
    IN  UpsertTxn(table, tmp,
                  fault.step \notin {"create", "copy"} /\ CopyAccepts(EmptyBag, tmp, nullable),
                  fault)

Keys(rows) == {Key(rows[i]) : i \in 1..Len(rows)}

\* two rows of the batch hold the same key, with no component missing
HasDuplicateKey(rows) == \E i, j \in 1..Len(rows) : i # j /\ Collide(rows[i], rows[j])

\* the record of a loader call: its name, its outcome, the step at which the
\* storage failed on its own, the rows handed to the storage step, whether
\* two of them shared a key, and the keys of the stored rows the call overwrote
Call(name, outcome, fault, handed, before) ==
    [op |-> name, outcome |-> outcome, fault |-> fault, rows |-> Range(handed),
     dup |-> HasDuplicateKey(handed),
     updated |-> IF outcome = "committed" /\ name = "upsert_matches"
                 THEN {k \in Keys(handed) : \E t \in Rows(before) : Key(t) = k /\ ~NullKey(t)}
                 ELSE {}]

NoCall == [op |-> "none", outcome |-> "none", fault |-> "none", rows |-> {}, dup |-> FALSE, updated |-> {}]

\* upsert_matches: what the call does to atp.matches
UpsertMatchesCall(df) ==
    IF df = <<>>
    THEN /\ matches' = matches
         /\ last' = Call("upsert_matches", "skipped", "none", <<>>, matches)
    ELSE \E fault \in UpsertFaults(Len(Staged(df))) :
           \E res \in {UpsertResult(matches, df, key_nullable, fault)} :
               /\ Size(res.table) <= MaxTable
               /\ matches' = res.table
               /\ last' = Call("upsert_matches", res.outcome, fault.step, res.handed, matches)

upsert_matches(df) ==
    /\ UpsertMatchesCall(df)
    /\ UNCHANGED <<players_ref, players, rankings, key_nullable, run, dd, src>>

\* the batches read_file returns for the match files
MatchBatches == {read_file(f) : f \in MatchFiles}

----------------------------------------------------------------------------
\* The players reference (load_tml.py, load_players_ref).  A row keeps the
\* key column and one non-key text column.

RawRefRow(i, p) == [id |-> i, player |-> p]

RawRefRows ==
    { RawRefRow("P1", "Ann"),
      RawRefRow("P1", ""),
      RawRefRow("", "Ann"),
      RawRefRow(" ", "Ann") }

RefFiles == SeqsUpTo(RawRefRows, MaxRows)

\* Series.astype(str): a missing cell becomes the text "nan"
AsTypeStr(v) == IF v = NA THEN "nan" ELSE v

\* the frame `out` of load_players_ref, one row
RefRow(r) ==
    [player_id |-> Strip(AsTypeStr(ReadCell(r.id))),
     player |-> Strip(AsTypeStr(ReadCell(r.player)))]

\* the rows load_players_ref keeps: player_id not missing and not empty
RefKept(r) == r.player_id # NA /\ r.player_id # ""

\* DataFrame.drop_duplicates(subset=["player_id"], keep="first")
DropDuplicatesFirst(rows) ==
    LET keep == {i \in 1..Len(rows) :
                    \A j \in 1..(i - 1) : rows[j].player_id # rows[i].player_id}
        F[i \in 0..Len(rows)] ==
            IF i = 0 THEN <<>>
            ELSE IF i \in keep THEN Append(F[i - 1], rows[i]) ELSE F[i - 1]
    IN  F[Len(rows)]

\* to_csv + COPY of one players_ref row
CsvRefRow(r) == [player_id |-> CsvText(r.player_id), player |-> CsvText(r.player)]

\* the scratch rows of load_players_ref
RefStaged(rows) ==
    LET out == [i \in 1..Len(rows) |-> RefRow(rows[i])]
        dedup == DropDuplicatesFirst(SelectSeq(out, RefKept))
    IN  [i \in 1..Len(dedup) |-> CsvRefRow(dedup[i])]

RefRowsOfKey(table, id) == {t \in Rows(table) : t.player_id = id}

RefCountOfKey(table, id) ==
    BagCardinality([t \in RefRowsOfKey(table, id) |-> CopiesIn(t, table)])

\* ON CONFLICT (player_id) DO UPDATE SET <every non-key column>, one row
MergeRefRow(table, r) ==
    LET hit == RefRowsOfKey(table, r.player_id)
    IN  IF hit = {}
        THEN table (+) SetToBag({r})
        ELSE (table (-) SetToBag(hit))
             (+) SetToBag({[t EXCEPT !.player = r.player] : t \in hit})

\* PRIMARY KEY (player_id) of atp.players_ref, on the rows one INSERT adds:
\* no NULL, and no key twice in the statement
RefInsertAccepts(rows) ==
    /\ \A i \in 1..Len(rows) : rows[i].player_id # NA
    /\ \A i, j \in 1..Len(rows) : i # j => rows[i].player_id # rows[j].player_id

RECURSIVE MergeRefRows(_, _)
MergeRefRows(table, rows) ==
    IF rows = <<>> THEN table
    ELSE MergeRefRows(MergeRefRow(table, Head(rows)), Tail(rows))

\* the transaction of load_players_ref: the scratch table has no constraint,
\* so the COPY fails on a storage fault only
RefResult(table, tmp, fault) ==
    LET raised == fault.step # "none" \/ ~RefInsertAccepts(tmp)
        work == IF fault.step \in {"create", "copy"} THEN table
                ELSE IF fault.step = "merge"
                     THEN MergeRefRows(table, SubSeq(tmp, 1, fault.done))
                     ELSE MergeRefRows(table, tmp)
    IN  [table |-> Transaction(table, work, raised),
         outcome |-> IF raised THEN "raised" ELSE "committed",
         handed |-> IF fault.step = "create" THEN <<>> ELSE tmp]

RefCall(outcome, fault, handed, before) ==
    [op |-> "load_players_ref", outcome |-> outcome, fault |-> fault, rows |-> Range(handed),
     dup |-> \E i, j \in 1..Len(handed) : i # j /\ handed[i].player_id = handed[j].player_id,
     updated |-> IF outcome = "committed"
                 THEN {<<r.player_id>> : r \in {h \in Range(handed) :
                                                   RefRowsOfKey(before, h.player_id) # {}}}
                 ELSE {}]

\* load_players_ref on a file that has the needed columns
LoadPlayersRefCall(file) ==
    \E tmp \in {RefStaged(file)} :
      \E fault \in UpsertFaults(Len(tmp)) :
        \E res \in {RefResult(players_ref, tmp, fault)} :
           /\ Size(res.table) <= MaxTable
           /\ players_ref' = res.table
           /\ last' = RefCall(res.outcome, fault.step, res.handed, players_ref)

load_players_ref(file) ==
    /\ LoadPlayersRefCall(file)
    /\ UNCHANGED <<matches, players, rankings, key_nullable, run, dd, src>>

----------------------------------------------------------------------------
\* Sackmann files (load_sackmann.py).

\* copy_df after the empty check: COPY <table> FROM STDIN in one transaction;
\* `accepted` is the verdict of the table's constraints on the new rows
CopyDf(table, rows, accepted, fault) ==
    [table |-> Transaction(table, table (+) BagOfSeq(rows), ~accepted \/ fault),
     outcome |-> IF ~accepted \/ fault THEN "raised" ELSE "committed",
     handed |-> rows]

\* the raw rows of the yearly match files
SackRawMatchRows ==
    { RawMatchRow("A", "20240101", "1", "6-4"),
      RawMatchRow("B", "20240101", "1", "6-4"),
      RawMatchRow("A", "20240101", "", "6-4") }

SackMatchFiles == SeqsUpTo(SackRawMatchRows, MaxRows)

\* load_matches, the rows of one year's file: the date has the compact format
\* only, tourney_id is not stripped, no row is dropped
SackMatchRow(r) ==
    [tourney_id |-> ReadCell(r.tourney_id),
     tourney_date |-> ToDatetime(r.tourney_date),
     match_num |-> ToNumeric(r.match_num),
     score |-> ReadCell(r.score)]

SackMatchBatch(rows) == CsvMatches([i \in 1..Len(rows) |-> SackMatchRow(rows[i])])

SackMatchBatches == {SackMatchBatch(f) : f \in SackMatchFiles}

\* load_matches, one iteration of the loop over the years: the year's file
\* is read and copied into atp.matches
LoadMatchesCall(out) ==
    IF out = <<>>
    THEN /\ matches' = matches
         /\ last' = Call("load_matches", "skipped", "none", <<>>, matches)
    ELSE \E fault \in BOOLEAN :
           \E res \in {CopyDf(matches, out, CopyAccepts(matches, out, key_nullable), fault)} :
               /\ Size(res.table) <= MaxTable
               /\ matches' = res.table
               /\ last' = Call("load_matches", res.outcome, IF fault THEN "copy" ELSE "none",
                               res.handed, matches)

load_matches(out) ==
    /\ LoadMatchesCall(out)
    /\ UNCHANGED <<players_ref, players, rankings, key_nullable, run, dd, src>>

----------------------------------------------------------------------------
\* Sackmann players and rankings (load_sackmann.py).

\* atp.players and atp.rankings are append-only: the storage declares no
\* uniqueness constraint on them, and a COPY is refused by a fault only
AppendAccepts(table, rows) == TRUE

\* the record of a call of load_players or load_rankings
SackCall(name, outcome, fault, handed) ==
    [op |-> name, outcome |-> outcome, fault |-> fault, rows |-> Range(handed),
     dup |-> FALSE, updated |-> {}]

\* one loader's copy_df(out, table): the empty check, then the COPY
\* [table, outcome, fault]
SackCopy(table, out, fault) ==
    IF out = <<>>
    THEN [table |-> table, outcome |-> "skipped", fault |-> "none"]
    ELSE [table |-> CopyDf(table, out, AppendAccepts(table, out), fault).table,
          outcome |-> CopyDf(table, out, AppendAccepts(table, out), fault).outcome,
          fault |-> IF fault THEN "copy" ELSE "none"]

RawPlayerRow(i, n) == [player_id |-> i, name_last |-> n]

RawPlayerRows ==
    { RawPlayerRow("1", "Ann"),
      RawPlayerRow("1", "Bob"),
      RawPlayerRow("2", "Ann"),
      RawPlayerRow("x", "Ann") }

\* atp_players.csv: missing or without a required column (ok = FALSE), or
\* its rows
PlayerFiles ==
    {[ok |-> FALSE, rows |-> <<>>]}
    \cup {[ok |-> TRUE, rows |-> f] : f \in SeqsUpTo(RawPlayerRows, MaxRows)}

\* load_players, one row of `out`
PlayerRow(r) == [player_id |-> ToNumeric(r.player_id), name_last |-> ReadCell(r.name_last)]

\* load_players: the rows handed to copy_df
PlayersOut(rows) ==
    LET out == [i \in 1..Len(rows) |-> PlayerRow(rows[i])]
        kept == SelectSeq(out, LAMBDA r : r.player_id # NaInt)
    IN  [i \in 1..Len(kept) |->
            [player_id |-> kept[i].player_id, name_last |-> CsvText(kept[i].name_last)]]

\* load_players: a missing file or a missing required column raises before
\* any row is read
LoadPlayersCall(file) ==
    IF ~file.ok
    THEN /\ players' = players
         /\ last' = SackCall("load_players", "raised", "structure", <<>>)
    ELSE \E out \in {PlayersOut(file.rows)} :
           \E fault \in BOOLEAN :
             \E res \in {SackCopy(players, out, fault)} :
               /\ Size(res.table) <= MaxTable
               /\ players' = res.table
               /\ last' = SackCall("load_players", res.outcome, res.fault, out)

load_players(file) ==
    /\ LoadPlayersCall(file)
    /\ UNCHANGED <<matches, players_ref, rankings, key_nullable, run, dd, src>>

RawRankingRow(d, k, i, p) ==
    [ranking_date |-> d, ranking |-> k, player_id |-> i, ranking_points |-> p]

RawRankingRows ==
    { RawRankingRow("20240101", "1", "1", "3"),
      RawRankingRow("20240101", "2", "1", "2"),
      RawRankingRow("20240108", "1", "2", "3"),
      RawRankingRow("20240101", "1", "x", "3") }

\* the concatenated frames of the rankings files that exist
RankingFiles == SeqsUpTo(RawRankingRows, MaxRows)

\* --min-ranking-date: none, or a date
MinDates == {NaInt, 20240108}

\* load_rankings: the coerced row
RankingRow(r) ==
    [ranking_date |-> ToDatetime(r.ranking_date), rank |-> ToNumeric(r.ranking),
     player_id |-> ToNumeric(r.player_id), points |-> ToNumeric(r.ranking_points)]

RankingKey(r) == <<r.ranking_date, r.player_id>>

\* the order of sort_values(["ranking_date", "player_id"])
RankingLess(a, b) ==
    \/ a.ranking_date < b.ranking_date
    \/ a.ranking_date = b.ranking_date /\ a.player_id < b.player_id

\* one row inserted behind the rows that are not greater: the sort is stable
RECURSIVE InsertSorted(_, _)
InsertSorted(sorted, r) ==
    IF sorted = <<>> THEN <<r>>
    ELSE IF RankingLess(r, sorted[Len(sorted)])
         THEN Append(InsertSorted(SubSeq(sorted, 1, Len(sorted) - 1), r), sorted[Len(sorted)])
         ELSE Append(sorted, r)

\* the first rows of the frame, in the order drop_duplicates(keep="first")
\* would keep them
DropDuplicatesKeepFirst(rows) ==
    SelectSeq([i \in 1..Len(rows) |-> [row |-> rows[i], at |-> i]],
              LAMBDA x : \A j \in 1..(x.at - 1) : RankingKey(rows[j]) # RankingKey(x.row))

\* DataFrame.sort_values(["ranking_date", "player_id"])
RECURSIVE SortValues(_)
SortValues(rows) ==
    IF rows = <<>> THEN <<>>
    ELSE InsertSorted(SortValues(SubSeq(rows, 1, Len(rows) - 1)), rows[Len(rows)])

\* DataFrame.drop_duplicates(subset=["ranking_date", "player_id"], keep="last"),
\* each kept row with its position in the frame
DropDuplicatesLast(rows) ==
    SelectSeq([i \in 1..Len(rows) |-> [row |-> rows[i], at |-> i]],
              LAMBDA x : \A j \in (x.at + 1)..Len(rows) : RankingKey(rows[j]) # RankingKey(x.row))

\* load_rankings up to the bulk copy: [before, out] with `before` the row
\* count ahead of the deduplication
RankingsOut(rows, min_date) ==
    LET typed == [i \in 1..Len(rows) |-> RankingRow(rows[i])]
        windowed == IF min_date = NaInt THEN typed
                    ELSE SelectSeq(typed, LAMBDA r : r.ranking_date # NaInt
                                                      /\ r.ranking_date >= min_date)
        keyed == SelectSeq(windowed, LAMBDA r : r.ranking_date # NaInt /\ r.player_id # NaInt)
        kept == DropDuplicatesLast(SortValues(keyed))
    IN  [before |-> Len(keyed), out |-> [i \in 1..Len(kept) |-> kept[i].row]]

LoadRankingsCall(rows, min_date) ==
    \E r \in {RankingsOut(rows, min_date)} :
      \E fault \in BOOLEAN :
        \E res \in {SackCopy(rankings, r.out, fault)} :
           /\ Size(res.table) <= MaxTable
           /\ rankings' = res.table
           /\ last' = SackCall("load_rankings", res.outcome, res.fault, r.out)

load_rankings(rows, min_date) ==
    /\ LoadRankingsCall(rows, min_date)
    /\ UNCHANGED <<matches, players_ref, players, key_nullable, run, dd, src>>

----------------------------------------------------------------------------
\* no main() has started
NoRun == [prog |-> "none", files |-> <<>>, i |-> 0, status |-> "idle", seen |-> {},
          applied |-> {}, df |-> <<>>]

\* no source file has been opened
NoFile == [loader |-> "none", cols |-> {}, raised |-> FALSE, df |-> <<>>]

\* no batch is being deduplicated
NoDedup == [kind |-> "none", stage |-> "idle", arrival |-> <<>>, sigma |-> <<>>,
            out |-> <<>>, out_perm |-> <<>>, deduped |-> 0]

\* The schema of atp.matches declares the key columns nullable (a unique
\* index: NULL keys are stored, and never conflict) or not (a primary key: a
\* NULL key is rejected).
KeyNullability == BOOLEAN

Init ==
    /\ matches = EmptyBag
    /\ players_ref = EmptyBag
    /\ players = EmptyBag
    /\ rankings = EmptyBag
    /\ key_nullable \in KeyNullability
    /\ last = NoCall
    /\ run = NoRun
    /\ dd = NoDedup
    /\ src = NoFile

\* the loaders of atp.matches
Next ==
    \/ \E df \in MatchBatches : upsert_matches(df)
    \/ \E out \in SackMatchBatches : load_matches(out)

Spec == Init /\ [][Next]_vars

\* load_tml.py: the players reference and the match files
NextTml ==
    \/ \E df \in MatchBatches : upsert_matches(df)
    \/ \E file \in RefFiles : load_players_ref(file)

SpecTml == Init /\ [][NextTml]_vars

\* load_sackmann.py: the players and the rankings
NextSack ==
    \/ \E file \in PlayerFiles : load_players(file)
    \/ \E rows \in RankingFiles, min_date \in MinDates : load_rankings(rows, min_date)

SpecSack == Init /\ [][NextSack]_vars

----------------------------------------------------------------------------
\* The deduplication of one batch, applied to the batch as it arrived and to
\* a permutation of it.

IndexPermutations(n) == {f \in [1..n -> 1..n] : \A i, j \in 1..n : f[i] = f[j] => i = j}

Permuted(rows, sigma) == [i \in 1..Len(rows) |-> rows[sigma[i]]]

DedupInput(kind, rows, sigma) ==
    [kind |-> kind, stage |-> "input", arrival |-> rows, sigma |-> sigma,
     out |-> <<>>, out_perm |-> <<>>, deduped |-> 0]

InitDedup ==
    /\ matches = EmptyBag
    /\ players_ref = EmptyBag
    /\ players = EmptyBag
    /\ rankings = EmptyBag
    /\ key_nullable \in KeyNullability
    /\ last = NoCall
    /\ run = NoRun
    /\ src = NoFile
    /\ \/ \E rows \in SeqsUpTo(RawRankingRows, MaxBatch) :
            \E sigma \in IndexPermutations(Len(rows)) :
                dd = DedupInput("rankings", rows, sigma)
       \/ \E rows \in SeqsUpTo(RawRefRows, MaxBatch) :
            dd = DedupInput("players_ref", rows, [i \in 1..Len(rows) |-> i])

\* load_rankings, lines 171-181: the deduplication and the count it prints
dedup_rankings ==
    /\ dd.stage = "input" /\ dd.kind = "rankings"
    /\ \E a \in {RankingsOut(dd.arrival, NaInt)} :
         dd' = [dd EXCEPT !.stage = "done",
                          !.out = a.out,
                          !.out_perm = RankingsOut(Permuted(dd.arrival, dd.sigma), NaInt).out,
                          !.deduped = a.before - Len(a.out)]
    /\ UNCHANGED <<matches, players_ref, players, rankings, key_nullable, last, run, src>>

\* load_players_ref, lines 161-164: the defensive cleanup
dedup_players_ref ==
    /\ dd.stage = "input" /\ dd.kind = "players_ref"
    /\ dd' = [dd EXCEPT !.stage = "done", !.out = RefStaged(dd.arrival)]
    /\ UNCHANGED <<matches, players_ref, players, rankings, key_nullable, last, run, src>>

NextDedup == dedup_rankings \/ dedup_players_ref

SpecDedup == InitDedup /\ [][NextDedup]_vars

----------------------------------------------------------------------------
\* The two main() functions.  A run is the list of the files main() goes
\* through, each with the flag `ok`: the file can be read and has the columns
\* its loader requires.

MainFile(kind, ok) == [kind |-> kind, ok |-> ok]

\* load_tml.main: the players file when --players-file names one, then the
\* match files of the folder (an empty folder exits ahead of the loop)
TmlRuns ==
    {ref \o fs : ref \in {<<>>} \cup {<<MainFile("players_ref", ok)>> : ok \in BOOLEAN},
                 fs \in {[i \in 1..Len(oks) |-> MainFile("matches", oks[i])] :
                            oks \in SeqsUpTo(BOOLEAN, MaxFiles) \ {<<>>}}}

\* load_sackmann.main: players, rankings, then the matches of one year
SackRuns ==
    {<<MainFile("players", a), MainFile("rankings", b), MainFile("matches", c)>> :
        a \in BOOLEAN, b \in BOOLEAN, c \in BOOLEAN}

\* a loader called by main() raised before it read a row
Unreadable(name) == Call(name, "raised", "structure", <<>>, EmptyBag)

\* main() after the call on file run.i: an exception of the call leaves
\* main(), nothing catches it; otherwise main() goes on to the next file
AfterCall(r, call, df) ==
    IF call.outcome = "raised"
    THEN [r EXCEPT !.status = "failed", !.seen = @ \cup {r.i}]
    ELSE [r EXCEPT !.i = @ + 1,
                   !.seen = @ \cup {r.i},
                   !.applied = IF call.outcome = "committed" THEN @ \cup {r.i} ELSE @,
                   !.df = df,
                   !.status = IF r.i = Len(r.files) THEN "done" ELSE "running"]

tml_main_start ==
    /\ run = NoRun
    /\ \E files \in TmlRuns :
         run' = [NoRun EXCEPT !.prog = "load_tml", !.files = files, !.i = 1, !.status = "running"]
    /\ UNCHANGED <<matches, players_ref, players, rankings, key_nullable, last, dd, src>>

\* load_tml.main, lines 201-202: load_players_ref(args.players_file)
tml_main_players_ref ==
    /\ run.prog = "load_tml" /\ run.status = "running"
    /\ run.files[run.i].kind = "players_ref"
    /\ IF ~run.files[run.i].ok
       THEN /\ last' = Unreadable("load_players_ref")
            /\ players_ref' = players_ref
       ELSE \E file \in RefFiles : LoadPlayersRefCall(file)
    /\ run' = AfterCall(run, last', <<>>)
    /\ UNCHANGED <<matches, players, rankings, key_nullable, dd, src>>

\* load_tml.main, lines 225-229: one iteration of the loop over the files
tml_main_loop ==
    /\ run.prog = "load_tml" /\ run.status = "running"
    /\ run.files[run.i].kind = "matches"
    /\ IF ~run.files[run.i].ok
       THEN /\ last' = Unreadable("read_file")
            /\ matches' = matches
            /\ run' = AfterCall(run, last', <<>>)
       ELSE \E df \in MatchBatches :
              /\ UpsertMatchesCall(df)
              /\ run' = AfterCall(run, last', df)
    /\ UNCHANGED <<players_ref, players, rankings, key_nullable, dd, src>>

sack_main_start ==
    /\ run = NoRun
    /\ \E files \in SackRuns :
         run' = [NoRun EXCEPT !.prog = "load_sackmann", !.files = files, !.i = 1,
                              !.status = "running"]
    /\ UNCHANGED <<matches, players_ref, players, rankings, key_nullable, last, dd, src>>

\* load_sackmann.main, line 236: load_players(args.data_dir)
sack_main_players ==
    /\ run.prog = "load_sackmann" /\ run.status = "running"
    /\ run.files[run.i].kind = "players"
    /\ \E file \in PlayerFiles :
         /\ file.ok = run.files[run.i].ok
         /\ LoadPlayersCall(file)
    /\ run' = AfterCall(run, last', <<>>)
    /\ UNCHANGED <<matches, players_ref, rankings, key_nullable, dd, src>>

\* load_sackmann.main, line 237: load_rankings(args.data_dir, min_date)
sack_main_rankings ==
    /\ run.prog = "load_sackmann" /\ run.status = "running"
    /\ run.files[run.i].kind = "rankings"
    /\ IF ~run.files[run.i].ok
       THEN /\ last' = Unreadable("load_rankings")
            /\ rankings' = rankings
       ELSE \E rows \in RankingFiles, min_date \in MinDates : LoadRankingsCall(rows, min_date)
    /\ run' = AfterCall(run, last', <<>>)
    /\ UNCHANGED <<matches, players_ref, players, key_nullable, dd, src>>

\* load_sackmann.main, line 238: load_matches(args.data_dir, year, year)
sack_main_matches ==
    /\ run.prog = "load_sackmann" /\ run.status = "running"
    /\ run.files[run.i].kind = "matches"
    /\ IF ~run.files[run.i].ok
       THEN /\ last' = Unreadable("load_matches")
            /\ matches' = matches
       ELSE \E out \in SackMatchBatches : LoadMatchesCall(out)
    /\ run' = AfterCall(run, last', <<>>)
    /\ UNCHANGED <<players_ref, players, rankings, key_nullable, dd, src>>

NextMain ==
    \/ tml_main_start
    \/ tml_main_players_ref
    \/ tml_main_loop
    \/ sack_main_start
    \/ sack_main_players
    \/ sack_main_rankings
    \/ sack_main_matches

SpecMain == Init /\ [][NextMain]_vars

----------------------------------------------------------------------------
\* The columns of a source file.  A file is its header, the set of the column
\* names it has, and its rows; the cells of a column the header lacks are not
\* in the file.  One file is loaded into the empty tables.

\* canon() of read_file: lower case, runs of other characters to "_"
Canon(c) ==
    CASE c = "Score" -> "score"
      [] c = "Tourney_Date" -> "tourney_date"
      [] OTHER -> c

\* the headers of the TML files: the expected names and two other spellings
TmlHeaders == SUBSET (TmlCols \cup {"Score", "Tourney_Date"})

TmlColumnFiles == {[cols |-> h, rows |-> f] : h \in TmlHeaders, f \in MatchFiles}

\* read_file on a file with the header file.cols: [raised, df].  Lines 52-63:
\* any expected name that no header canonicalises to raises ValueError (the
\* rename adds no name); lines 65-69: no rename happens when none is missing,
\* the columns are kept by exact name, and df["tourney_date"] raises KeyError
\* when that exact name is not there; lines 86-88: a column not kept is NA.
ReadFileColumns(file) ==
    LET norm == {Canon(c) : c \in file.cols}
        missing == TmlCols \ norm
        kept == file.cols \cap TmlCols
    IN  IF missing # {} \/ "tourney_date" \notin kept
        THEN [raised |-> TRUE, df |-> <<>>]
        ELSE [raised |-> FALSE,
              df |-> [i \in 1..Len(file.rows) |->
                        [tourney_id |-> IF "tourney_id" \in kept
                                        THEN TmlRow(file.rows[i]).tourney_id ELSE NA,
                         tourney_date |-> TmlRow(file.rows[i]).tourney_date,
                         match_num |-> IF "match_num" \in kept
                                       THEN TmlRow(file.rows[i]).match_num ELSE NaInt,
                         score |-> IF "score" \in kept
                                   THEN TmlRow(file.rows[i]).score ELSE NA]]]

\* load_tml.main, one file: read_file, then upsert_matches
read_file_columns(file) ==
    /\ src = NoFile
    /\ \E res \in {ReadFileColumns(file)} :
         /\ src' = [loader |-> "read_file", cols |-> file.cols, raised |-> res.raised,
                    df |-> res.df]
         /\ IF res.raised
            THEN /\ last' = Unreadable("read_file")
                 /\ matches' = matches
            ELSE UpsertMatchesCall(res.df)
    /\ UNCHANGED <<players_ref, players, rankings, key_nullable, run, dd>>

\* the yearly match files of load_sackmann.py, headers by exact name
SackColumnFiles == {[cols |-> h, rows |-> f] : h \in SUBSET TmlCols, f \in SackMatchFiles}

\* load_matches, lines 202-216: a column of MATCH_COLS the file lacks is
\* added as NA, whichever column it is; nothing raises
LoadMatchesColumns(file) ==
    [i \in 1..Len(file.rows) |->
        [tourney_id |-> IF "tourney_id" \in file.cols
                        THEN SackMatchRow(file.rows[i]).tourney_id ELSE NA,
         tourney_date |-> IF "tourney_date" \in file.cols
                          THEN SackMatchRow(file.rows[i]).tourney_date ELSE NaInt,
         match_num |-> IF "match_num" \in file.cols
                       THEN SackMatchRow(file.rows[i]).match_num ELSE NaInt,
         score |-> IF "score" \in file.cols
                   THEN SackMatchRow(file.rows[i]).score ELSE NA]]

\* load_sackmann.load_matches, one year's file
load_matches_columns(file) ==
    /\ src = NoFile
    /\ \E out \in {LoadMatchesColumns(file)} :
         /\ src' = [loader |-> "load_matches", cols |-> file.cols, raised |-> FALSE, df |-> out]
         /\ LoadMatchesCall(CsvMatches(out))
    /\ UNCHANGED <<players_ref, players, rankings, key_nullable, run, dd>>

\* atp_players.csv: the columns kept here
PlayerCols == {"player_id", "name_last", "hand", "height"}

\* load_players, lines 104-113: the columns whose absence raises
PlayersNeeded == {"player_id", "name_last", "hand"}

\* the files load_players reads with their header (lines 78-85: has_header)
PlayerColumnFiles ==
    {[cols |-> h, rows |-> f] :
        h \in {x \in SUBSET PlayerCols : x \cap {"player_id", "name_last"} # {}},
        f \in SeqsUpTo(RawPlayerRows, MaxRows)}

\* load_players on a file with the header file.cols: [raised, df], every row
\* of the file has the hand R and the height 1
LoadPlayersColumns(file) ==
    IF PlayersNeeded \ file.cols # {}
    THEN [raised |-> TRUE, df |-> <<>>]
    ELSE [raised |-> FALSE,
          df |-> SelectSeq([i \in 1..Len(file.rows) |->
                              [player_id |-> ToNumeric(file.rows[i].player_id),
                               name_last |-> CsvText(ReadCell(file.rows[i].name_last)),
                               hand |-> "R",
                               height_cm |-> IF "height" \in file.cols
                                             THEN ToNumeric("1") ELSE NaInt]],
                           LAMBDA r : r.player_id # NaInt)]

\* load_sackmann.load_players on one file
load_players_columns(file) ==
    /\ src = NoFile
    /\ \E res \in {LoadPlayersColumns(file)} :
         /\ src' = [loader |-> "load_players", cols |-> file.cols, raised |-> res.raised,
                    df |-> res.df]
         /\ IF res.raised
            THEN /\ last' = SackCall("load_players", "raised", "structure", <<>>)
                 /\ players' = players
            ELSE \E fault \in BOOLEAN :
                   \E cp \in {SackCopy(players, res.df, fault)} :
                       /\ players' = cp.table
                       /\ last' = SackCall("load_players", cp.outcome, cp.fault, res.df)
    /\ UNCHANGED <<matches, players_ref, rankings, key_nullable, run, dd>>

NextColumns ==
    \/ \E file \in TmlColumnFiles : read_file_columns(file)
    \/ \E file \in SackColumnFiles : load_matches_columns(file)
    \/ \E file \in PlayerColumnFiles : load_players_columns(file)

SpecColumns == Init /\ [][NextColumns]_vars

----------------------------------------------------------------------------
\* The claims about the loaders of atp.matches and atp.players_ref.

MatchKeysOf(rows) == {Key(r) : r \in rows}

\* C1: calling upsert_matches(df) twice in succession leaves atp.matches with
\* the same rows as calling it once.  In a run of load_tml.main: when two
\* files in succession give the same batch and upsert_matches commits both,
\* the second call leaves atp.matches as the first call left it.
C1_RerunSameFile ==
    [][ ( /\ run.prog = "load_tml" /\ run'.i = run.i + 1
          /\ last.op = "upsert_matches" /\ last.outcome = "committed"
          /\ last'.op = "upsert_matches" /\ last'.outcome = "committed"
          /\ run'.df = run.df )
            => matches' = matches ]_vars

C2_WitnessRef ==
    /\ last.op = "load_players_ref" /\ last.outcome = "committed"
    /\ \E r \in last.rows : <<r.player_id>> \in last.updated /\ r \in Rows(players_ref)

\* C3: atomic apply.  A call of upsert_matches that fails (creating the
\* scratch table, copying into it, or merging) is raised to the caller and
\* leaves atp.matches exactly as it was.
C3_AtomicApply ==
    [][ (last'.op = "upsert_matches" /\ last'.outcome = "raised") =>
            matches' = matches ]_vars

\* C3 witness: an upsert_matches that handed rows to the storage step has
\* raised, on a table that holds rows
C3_Witness ==
    /\ last.op = "upsert_matches" /\ last.outcome = "raised"
    /\ last.fault = "merge" /\ Cardinality(last.rows) >= 2
    /\ Size(matches) > 0

\* C4: frame of the apply.  Across every call of upsert_matches and of
\* copy_df on atp.matches, a row whose key is not in the batch keeps every
\* field, no key loses a row, and the row count does not decrease.
C4_Frame ==
    [][ /\ Size(matches') >= Size(matches)
        /\ \A t \in Rows(matches) :
             /\ CountOfKey(matches', Key(t)) >= CountOfKey(matches, Key(t))
             /\ Key(t) \notin MatchKeysOf(last'.rows) =>
                    CopiesIn(t, matches') = CopiesIn(t, matches) ]_vars

\* C4 witness: a committed upsert_matches has overwritten a row while the
\* table holds a row of another key
C4_Witness ==
    /\ last.op = "upsert_matches" /\ last.outcome = "committed"
    /\ last.updated # {}
    /\ \E t \in Rows(matches) : Key(t) \notin MatchKeysOf(last.rows)

\* C5: key integrity.  No row whose natural key has a missing component is
\* handed to the storage step, by upsert_matches or by load_matches.
C5_KeyIntegrity ==
    last.op \in {"upsert_matches", "load_matches"} =>
        \A r \in last.rows : ~NullKey(r)

\* C9: a batch of upsert_matches with two rows of one key is not an error:
\* unless the storage fails on its own, the call commits, with exactly one
\* row persisted for each key of the batch.
C9_DuplicatesCommit ==
    (last.op = "upsert_matches" /\ last.dup /\ last.fault = "none") =>
        /\ last.outcome = "committed"
        /\ \A r \in last.rows : CountOfKey(matches, Key(r)) = 1

----------------------------------------------------------------------------
\* The claims about the deduplication inside one batch.

\* the rankings rows of a batch that have their key, in arrival order
Arrived(rows) ==
    SelectSeq([i \in 1..Len(rows) |-> RankingRow(rows[i])],
              LAMBDA r : r.ranking_date # NaInt /\ r.player_id # NaInt)

\* the last row of each (ranking_date, player_id) in arrival order
LastArrived(rows) ==
    {rows[i] : i \in {n \in 1..Len(rows) :
                        \A j \in (n + 1)..Len(rows) : RankingKey(rows[j]) # RankingKey(rows[n])}}

RankingKeysOf(rows) == {RankingKey(rows[i]) : i \in 1..Len(rows)}

\* the permutation keeps the arrival order of the rows that share a key
OrderKept(rows, sigma) ==
    \A i, j \in 1..Len(rows) :
        (i < j /\ RankingKey(RankingRow(rows[sigma[i]])) = RankingKey(RankingRow(rows[sigma[j]])))
            => sigma[i] < sigma[j]

\* C7, as stated: for every batch of rankings rows and every permutation of
\* its arrival order, the deduplication leaves the same surviving row for
\* each (ranking_date, player_id).
C7_SameSurvivorAnyOrder ==
    (dd.stage = "done" /\ dd.kind = "rankings") => Range(dd.out) = Range(dd.out_perm)

\* C7, amended: for every permutation the surviving keys are the same and the
\* surviving row of a key is the last row of that key in arrival order; the
\* survivors are the same rows whenever the permutation keeps the arrival
\* order of the rows that share a key.
C7_SurvivorIsLastArrived ==
    (dd.stage = "done" /\ dd.kind = "rankings") =>
        /\ RankingKeysOf(dd.out) = RankingKeysOf(dd.out_perm)
        /\ Range(dd.out) = LastArrived(Arrived(dd.arrival))
        /\ Range(dd.out_perm) = LastArrived(Arrived(Permuted(dd.arrival, dd.sigma)))
        /\ OrderKept(dd.arrival, dd.sigma) => dd.out = dd.out_perm

\* C7 witness: a batch with two different rows of one key was deduplicated as
\* it arrived and under a permutation that moves rows and keeps the order of
\* these two
C7_Witness ==
    /\ dd.stage = "done" /\ dd.kind = "rankings"
    /\ dd.deduped = 1 /\ Len(dd.out) = 2
    /\ \E i, j \in 1..Len(Arrived(dd.arrival)) :
          /\ i < j
          /\ RankingKey(Arrived(dd.arrival)[i]) = RankingKey(Arrived(dd.arrival)[j])
          /\ Arrived(dd.arrival)[i] # Arrived(dd.arrival)[j]
    /\ dd.sigma # [i \in 1..Len(dd.arrival) |-> i]
    /\ OrderKept(dd.arrival, dd.sigma)

\* the rows of a players reference file that load_players_ref keeps, in
\* arrival order, as they are staged
RefArrived(rows) ==
    LET kept == SelectSeq([i \in 1..Len(rows) |-> RefRow(rows[i])], RefKept)
    IN  [i \in 1..Len(kept) |-> CsvRefRow(kept[i])]

\* C8: where a loader collapses the rows of one batch that share a key, the
\* row kept is the last of them in arrival order: load_rankings on
\* (ranking_date, player_id), with the count of the rows it discarded, and
\* load_players_ref on player_id.
C8_LastInBatchWins ==
    dd.stage = "done" =>
        /\ dd.kind = "rankings" =>
             /\ Range(dd.out) = LastArrived(Arrived(dd.arrival))
             /\ dd.deduped = Len(Arrived(dd.arrival)) - Cardinality(RankingKeysOf(Arrived(dd.arrival)))
        /\ dd.kind = "players_ref" =>
             Range(dd.out) =
                 {RefArrived(dd.arrival)[i] : i \in {n \in 1..Len(RefArrived(dd.arrival)) :
                     \A j \in (n + 1)..Len(RefArrived(dd.arrival)) :
                         RefArrived(dd.arrival)[j].player_id # RefArrived(dd.arrival)[n].player_id}}

\* C8, load_rankings alone: the last row in arrival order is kept
C8_RankingsLastWins ==
    (dd.stage = "done" /\ dd.kind = "rankings") =>
        /\ Range(dd.out) = LastArrived(Arrived(dd.arrival))
        /\ dd.deduped = Len(Arrived(dd.arrival)) - Cardinality(RankingKeysOf(Arrived(dd.arrival)))

\* C6: each target table holds at most one row per natural key, after any
\* sequence of runs of load_players and load_rankings.
C6_UniquePlayersRankings ==
    /\ \A t \in Rows(players) :
         BagCardinality([u \in {x \in Rows(players) : x.player_id = t.player_id}
                            |-> CopiesIn(u, players)]) = 1
    /\ \A t \in Rows(rankings) :
         BagCardinality([u \in {x \in Rows(rankings) : RankingKey(x) = RankingKey(t)}
                            |-> CopiesIn(u, rankings)]) = 1

\* C6, the tables with a declared key: atp.matches holds a key without a
\* NULL once, and atp.players_ref holds a player_id once
C6_UniqueDeclaredKeys ==
    /\ UniqueBag(matches)
    /\ \A t \in Rows(players_ref) : RefCountOfKey(players_ref, t.player_id) = 1

----------------------------------------------------------------------------
\* The claim about the main() functions.

\* the files of the run that cannot be read or lack a required column
Failed(r) == {j \in 1..Len(r.files) : ~r.files[j].ok}

\* C10: when main() has ended, no row of a file that failed structurally was
\* applied, and every file or entity behind such a file was still processed.
C10_FileIsolation ==
    run.status \in {"done", "failed"} =>
        /\ run.applied \cap Failed(run) = {}
        /\ \A i \in 1..Len(run.files) :
             (\E j \in Failed(run) : j < i) => i \in run.seen

\* C10, the half that holds: no row of a file that failed structurally is
\* applied
C10_FailedFileNotApplied ==
    run.applied \cap Failed(run) = {}

----------------------------------------------------------------------------
\* The claim about the columns of a source file.

\* the minimum-required columns of an entity: its identifier fields, a name
\* field, its key date
MinRequired(loader) ==
    IF loader = "load_players" THEN {"player_id", "name_last"}
    ELSE {"tourney_id", "tourney_date", "match_num"}

\* the canonical columns of an entity
CanonicalCols(loader) == IF loader = "load_players" THEN PlayerCols ELSE TmlCols

\* the canonical columns the file lacks
Lacking(f) == CanonicalCols(f.loader) \ {Canon(c) : c \in f.cols}

\* column c of the normalized row r is missing
MissingIn(r, c) ==
    CASE c = "tourney_id" -> r.tourney_id = NA
      [] c = "tourney_date" -> r.tourney_date = NaInt
      [] c = "match_num" -> r.match_num = NaInt
      [] c = "score" -> r.score = NA
      [] c = "player_id" -> r.player_id = NaInt
      [] c = "name_last" -> r.name_last = NA
      [] c = "hand" -> r.hand = NA
      [] c = "height" -> r.height_cm = NaInt

\* the two halves of C11 for the files of the loaders in `ls`
AbsentColumns(ls) ==
    (src.loader \in ls /\ Lacking(src) # {}) =>
        IF Lacking(src) \cap MinRequired(src.loader) = {}
        THEN /\ ~src.raised
             /\ \A i \in 1..Len(src.df) : \A c \in Lacking(src) : MissingIn(src.df[i], c)
        ELSE /\ src.raised
             /\ last.rows = {}
             /\ matches = EmptyBag /\ players = EmptyBag

\* C11: a file that lacks a canonical column outside the minimum-required set
\* is still normalized, with that column missing in every row; a file that
\* lacks a minimum-required column fails as a whole and no row of it is
\* applied; for read_file, load_players and the Sackmann load_matches.
C11_AbsentColumns == AbsentColumns({"read_file", "load_players", "load_matches"})

====
